---- MODULE Spec2Model ----
(***************************************************************************)
(* Model of go-exactonline: rest.Client (request construction, endpoint    *)
(* resolution, Do) and edm.DateTime.UnmarshalJSON.                         *)
(*                                                                         *)
(* Go strings are sequences of one-character strings.  A nil pointer or a  *)
(* nil interface is Nil.                                                   *)
(*                                                                         *)
(* The Client has no lock.  A method of the Client is a sequence of steps, *)
(* one for every read of a field of the Client, and the setters may run    *)
(* between any two steps: from another goroutine (a data race, in which a  *)
(* word-sized field is read as the value before or after the write) or,    *)
(* in Do, from the completion callback.                                    *)
(***************************************************************************)
EXTENDS Integers, Sequences, FiniteSets, TLC

VARIABLES c, built, ep, last, dt, parsed

vars == <<c, built, ep, last, dt, parsed>>

Nil == [nil |-> TRUE]

\* No call made yet.
Idle == [pc |-> "idle"]

(***************************************************************************)
(* strings                                                                 *)
(***************************************************************************)
HasPrefix(s, ch) == Len(s) > 0 /\ s[1] = ch

HasSuffix(s, ch) == Len(s) > 0 /\ s[Len(s)] = ch

Range(s) == {s[i] : i \in DOMAIN s}

TrimSuffix(s, ch) == IF HasSuffix(s, ch) THEN SubSeq(s, 1, Len(s) - 1) ELSE s

Upper ==
    <<"A", "B", "C", "D", "E", "F", "G", "H", "I", "J", "K", "L", "M",
      "N", "O", "P", "Q", "R", "S", "T", "U", "V", "W", "X", "Y", "Z">>

Lower ==
    <<"a", "b", "c", "d", "e", "f", "g", "h", "i", "j", "k", "l", "m",
      "n", "o", "p", "q", "r", "s", "t", "u", "v", "w", "x", "y", "z">>

Digits == <<"0", "1", "2", "3", "4", "5", "6", "7", "8", "9">>

\* The characters U+017F (long s) and U+212A (Kelvin sign).
LongS == "U+017F"

Kelvin == "U+212A"

(***************************************************************************)
(* rest.New, the setters                                                   *)
(***************************************************************************)
New == [baseURL |-> Nil, debug |-> FALSE, userAgent |-> <<>>,
        onRequestCompleted |-> Nil]

URL(path) == [Scheme |-> "https", Host |-> "start.exactonline.nl", Path |-> path]

SetBaseURL(baseURL) ==
    /\ c' = [c EXCEPT !.baseURL = baseURL]
    /\ UNCHANGED <<built, ep, last, dt, parsed>>

SetDebug(debug) ==
    /\ c' = [c EXCEPT !.debug = debug]
    /\ UNCHANGED <<built, ep, last, dt, parsed>>

\* A string is two words, a data pointer and a length.  The strings written
\* while NewRequest is about to read the field (client.go:82) are kept with
\* the call, as the read may load each of the two words from any of them.
SetUserAgent(userAgent) ==
    /\ c' = [c EXCEPT !.userAgent = userAgent]
    /\ built' = IF built.pc = "header"
                THEN [built EXCEPT !.seen = @ \cup {userAgent}]
                ELSE built
    /\ UNCHANGED <<ep, last, dt, parsed>>

\* The registration of the completion callback (the field of client.go:43).
OnRequestCompleted(rc) ==
    /\ c' = [c EXCEPT !.onRequestCompleted = rc]
    /\ UNCHANGED <<built, ep, last, dt, parsed>>

(***************************************************************************)
(* Client.GetEndpoint.  c.baseURL is read twice, at client.go:87 and at    *)
(* client.go:92; a nil baseURL is dereferenced (a run-time panic).         *)
(***************************************************************************)
Panic == [panic |-> "nil pointer dereference"]

\* The base path, not trimmed.
BasePathNoTrim(baseURL) == baseURL.Path

\* client.go:87, for a baseURL that is not nil
BasePath(baseURL) == TrimSuffix(baseURL.Path, "/")

\* client.go:88-90
Rooted(path) == IF ~HasPrefix(path, "/") THEN <<"/">> \o path ELSE path

\* client.go:92-94: a copy of *baseURL with the path replaced
Endpoint(baseURL, basePath, path) ==
    IF baseURL = Nil THEN Panic
    ELSE [baseURL EXCEPT !.Path = basePath \o path]

\* GetEndpoint when the read of client.go:87 gives b1 and that of 92 gives b2.
GetEndpointWith(b1, b2, path) ==
    IF b1 = Nil THEN Panic
    ELSE Endpoint(b2, BasePath(b1), Rooted(path))

\* GetEndpoint on a client nobody writes to meanwhile.
GetEndpoint(cl, path) == GetEndpointWith(cl.baseURL, cl.baseURL, path)

(***************************************************************************)
(* Wire texts.  A byte buffer or a body stream carries a text: nothing, a  *)
(* text that is no JSON, a JSON text cut short, or a JSON value.  JSON     *)
(* values are trees: objects (the sequence of their members, each a name   *)
(* and a value, in the order of the text), arrays, numbers and null.       *)
(***************************************************************************)
Empty == [syntax |-> "empty"]

Invalid == [syntax |-> "invalid"]

Truncated == [syntax |-> "truncated"]

Json(v) == [syntax |-> "json", value |-> v]

JNull == [t |-> "null"]

JNum(n) == [t |-> "number", n |-> n]

JArr(items) == [t |-> "array", items |-> items]

JObj(m) == [t |-> "object", m |-> m]

\* The member k: v of an object.
Member(k, v) == [k |-> k, v |-> v]

Reader(content) == [content |-> content, consumed |-> FALSE]

\* What is left to read of a reader.
Rest(r) == IF r.consumed THEN Empty ELSE r.content

Err(msg) == [error |-> msg]

\* The zero time.Time, and time.Unix(0, nsec): the instant nsec nanoseconds
\* after the epoch.
ZeroTime == [zero |-> TRUE]

Unix(nsec) == [ns |-> nsec]

(***************************************************************************)
(* Client.NewRequest                                                       *)
(***************************************************************************)
\* net/http isTokenTable: the letters, the digits, and ! # $ % & * + - . ^ _
\* | ~, the apostrophe (U+0027) and the grave accent (U+0060).
TokenChars ==
    Range(Upper) \cup Range(Lower) \cup Range(Digits)
    \cup {"!", "#", "$", "%", "&", "*", "+", "-", ".", "^", "_", "|", "~",
          "U+0027", "U+0060"}

\* net/http validMethod, after "" has become GET: token characters only.
ValidMethod(method) ==
    \A i \in 1..Len(method) : method[i] \in TokenChars

\* json.NewEncoder(buf).Encode(body)
Encode(body) ==
    IF "unsupported" \in DOMAIN body
    THEN [buf |-> Empty, err |-> Err("json: unsupported type")]
    ELSE [buf |-> Json(body.json), err |-> Nil]

\* url.Parse(u.String()) for a URL with a scheme and a host, whose path has
\* letters, digits and slashes: String puts a "/" before a path that has none.
ParseString(u) ==
    IF Len(u.Path) > 0 /\ ~HasPrefix(u.Path, "/")
    THEN [u EXCEPT !.Path = <<"/">> \o @]
    ELSE u

\* client.go:62-78: the body is encoded, then http.NewRequest, then the context.
Build(u, ctx, method, body) ==
    LET enc == IF body # Nil THEN Encode(body) ELSE [buf |-> Empty, err |-> Nil]
    IN  IF enc.err # Nil THEN [req |-> Nil, err |-> enc.err]
        ELSE IF ~ValidMethod(method)
             THEN [req |-> Nil, err |-> Err("net/http: invalid method")]
        ELSE [req |-> [Method |-> IF method = <<>> THEN <<"G", "E", "T">> ELSE method,
                       URL |-> ParseString(u),
                       Body |-> Reader(enc.buf),
                       ctx |-> IF ctx # Nil THEN ctx ELSE [ctx |-> "background"],
                       Header |-> <<>>],
              err |-> Nil]

\* client.go:80-82, userAgent being what the read of c.userAgent gave
Header(userAgent) ==
    [ContentType |-> "application/json; charset=utf-8",
     Accept |-> "application/json",
     UserAgent |-> userAgent]

\* The string read as the data pointer of one string and the length of
\* another: as many bytes as the length says from where the data is, the
\* bytes behind the data being whatever the memory holds there.
Tear(data, length) ==
    IF Len(length) <= Len(data) THEN SubSeq(data, 1, Len(length))
    ELSE data \o [i \in 1..(Len(length) - Len(data)) |-> "?"]

\* NewRequest when the reads of c.baseURL give b1 and b2 and the read of
\* c.userAgent gives userAgent.
NewRequestWith(b1, b2, userAgent, ctx, method, path, body) ==
    LET u == GetEndpointWith(b1, b2, path)
    IN  IF u = Panic THEN Panic
        ELSE LET r == Build(u, ctx, method, body)
             IN  IF r.err # Nil THEN r
                 ELSE [req |-> [r.req EXCEPT !.Header = Header(userAgent)],
                       err |-> Nil]

\* NewRequest on a client nobody writes to meanwhile.
NewRequest(cl, ctx, method, path, body) ==
    NewRequestWith(cl.baseURL, cl.baseURL, cl.userAgent, ctx, method, path, body)

(***************************************************************************)
(* Client.Do.  A call is a frame: the request, the response, the stream    *)
(* the transport handed out as the response body (with the number of times *)
(* it was closed), the caller's target, the sequence of steps taken, the   *)
(* diagnostic log and the values returned.                                 *)
(*                                                                         *)
(* resp.Body is the transport's stream (ref "stream") or a buffered copy   *)
(* with a no-op Close (ref "nop", as io.NopCloser).  The stream holds a    *)
(* text; a read at the end of the text gives readErr (Nil stands for       *)
(* io.EOF) and goes on giving it, Close gives closeErr, and a read after   *)
(* Close is an error, as with the bodies of net/http.                      *)
(***************************************************************************)
Frame(req, responseBody) ==
    [req |-> req, resp |-> Nil, stream |-> Nil, target |-> responseBody,
     sent |-> Nil, dispatches |-> 0, events |-> <<>>, log |-> <<>>, ret |-> Nil]

\* The response body read to its end: the text that is read and the error
\* the reads end with (Nil for io.EOF).
ReadAll(f) ==
    IF f.resp.Body.ref = "nop" THEN [data |-> Rest(f.resp.Body), err |-> Nil]
    ELSE IF f.stream.closes > 0
         THEN [data |-> Empty, err |-> Err("http: read on closed response body")]
    ELSE [data |-> Rest(f.stream), err |-> f.stream.readErr]

\* The text left in the response body.
BodyRest(f) == ReadAll(f).data

\* The frame once the response body has been read to its end.
ReadBody(f) ==
    IF f.resp.Body.ref = "stream"
    THEN [f EXCEPT !.stream.consumed = TRUE]
    ELSE [f EXCEPT !.resp.Body.consumed = TRUE]

\* httpResp.Body.Close()
CloseBody(f) ==
    IF f.resp.Body.ref = "stream"
    THEN [f EXCEPT !.stream.closes = @ + 1, !.events = Append(@, "close")]
    ELSE f

\* httputil.DumpRequestOut(req, true): the body is drained into a buffer, a
\* copy is written to the dump and req.Body is set to a reader of the buffer.
DumpRequestOut(f) ==
    LET data == Rest(f.req.Body)
    IN  [f EXCEPT !.req.Body = Reader(data),
                  !.log = Append(@, [request |-> f.req.Header, body |-> data]),
                  !.events = Append(@, "dumpRequest")]

\* client.go:101-104, debug being what the read of c.debug gave
Entry(f, debug) == IF debug THEN DumpRequestOut(f) ELSE f

\* c.http.Do(req): the transport reads the request body and answers tr.
Dispatch(f, tr) ==
    LET g == [f EXCEPT !.sent = Rest(f.req.Body), !.req.Body.consumed = TRUE,
                       !.dispatches = @ + 1, !.events = Append(@, "dispatch")]
    IN  IF tr.err # Nil THEN g
        ELSE [g EXCEPT !.resp = [StatusCode |-> tr.status, Body |-> [ref |-> "stream"]],
                       !.stream = [content |-> tr.body, readErr |-> tr.readErr,
                                   closeErr |-> tr.closeErr,
                                   consumed |-> FALSE, closes |-> 0]]

\* The callback called for a 2xx response only.
CallbackOnSuccess(f) ==
    IF f.resp.StatusCode >= 200 /\ f.resp.StatusCode <= 299
    THEN [f EXCEPT !.events = Append(@, "callback")]
    ELSE f

\* c.onRequestCompleted(req, httpResp)
Callback(f) == [f EXCEPT !.events = Append(@, "callback")]

\* log.Println(string(dump)) after a dump that failed: dump is nil.
NoDump == [dump |-> "none"]

\* httputil.DumpResponse(httpResp, true) and the log of client.go:123-124.
\* drainBody reads the body to its end and closes it, and the response is left
\* with a reader of the buffered bytes; when the read or the Close fails,
\* drainBody gives the body back as it is by then and DumpResponse returns the
\* error, which client.go:123 drops.
DumpResponse(f) ==
    LET r == ReadAll(f)
        g == [ReadBody(f) EXCEPT !.events = Append(@, "dumpResponse")]
        h == CloseBody(g)
    IN  IF r.err # Nil THEN [g EXCEPT !.log = Append(@, NoDump)]
        ELSE IF f.resp.Body.ref = "stream" /\ f.stream.closeErr # Nil
             THEN [h EXCEPT !.log = Append(@, NoDump)]
        ELSE [h EXCEPT !.resp.Body = [ref |-> "nop", content |-> r.data,
                                      consumed |-> FALSE],
                       !.log = Append(@, [response |-> f.resp.StatusCode,
                                          body |-> r.data])]

\* CheckResponse: 2xx is a success; anything else is a failure that carries
\* the status and what could be read of the body.
CheckResponse(f) ==
    LET g == [f EXCEPT !.events = Append(@, "classify")]
    IN  IF f.resp.StatusCode >= 200 /\ f.resp.StatusCode <= 299
        THEN [f |-> g, err |-> Nil]
        ELSE [f |-> ReadBody(g),
              err |-> [error |-> "api", status |-> f.resp.StatusCode,
                       detail |-> BodyRest(f)]]

(***************************************************************************)
(* The envelope decode of Do: json.NewDecoder(body).Decode(envelope) with  *)
(* envelope = {D: {Results: responseBody}}.  responseBody is Nil or a      *)
(* pointer to the caller's value, of shape "single" (a struct) or          *)
(* "sequence" (a slice); val is the sequence of the JSON values that were  *)
(* decoded into the caller's value, which takes every object (a struct) or *)
(* every array (a slice) it is given.                                      *)
(*                                                                         *)
(* encoding/json: the members of an object are taken in the order of the   *)
(* text; a member belongs to the field whose name it has, or else to the   *)
(* field whose name it has when the case of the letters is ignored; any    *)
(* other member is skipped.  A value of the wrong kind for its field is an *)
(* error that is kept (the first one) while the decoding goes on.  null    *)
(* leaves a struct alone and makes an interface nil; an interface that     *)
(* holds a pointer hands the value on to what the pointer points to, and   *)
(* any other interface takes the value itself.                             *)
(*                                                                         *)
(* The Decoder looks at what it has read before it looks at the error of   *)
(* the read: an object or an array that is complete is decoded whatever    *)
(* the read ends with, and a text that is no JSON is a syntax error; any   *)
(* other text that ends with a read error gives that error.                *)
(***************************************************************************)
\* The letter ch in lower case; the long s is an s and the Kelvin sign a k.
Fold(ch) ==
    IF \E i \in 1..26 : Upper[i] = ch
    THEN Lower[CHOOSE i \in 1..26 : Upper[i] = ch]
    ELSE IF ch = LongS THEN "s"
    ELSE IF ch = Kelvin THEN "k"
    ELSE ch

\* The member name key is that of the field tagged name: the same name, or
\* the same name but for the case of the letters.
Matches(key, name) ==
    /\ Len(key) = Len(name)
    /\ \A i \in 1..Len(key) : Fold(key[i]) = Fold(name[i])

\* The tags of Envelope.D and of D.Results (client.go:153, 157).
TagD == <<"d">>

TagResults == <<"r", "e", "s", "u", "l", "t", "s">>

Unset == <<>>

Target(shape) == [shape |-> shape, val |-> Unset]

TypeError == Err("json: cannot unmarshal into Go value")

\* The state of a decode: the first error kept, whether Results still holds
\* the caller's pointer, and the caller's value.
Decoding(responseBody) ==
    [err |-> Nil, held |-> responseBody # Nil, target |-> responseBody]

\* The decoder's saveError: the first error is the one returned.
SaveError(s, e) == IF s.err = Nil THEN [s EXCEPT !.err = e] ELSE s

\* A member "results" of D, decoded into the interface Results.
DecodeResults(rv, s) ==
    IF ~s.held THEN s
    ELSE IF rv.t = "null" THEN [s EXCEPT !.held = FALSE]
    ELSE IF \/ s.target.shape = "single" /\ rv.t = "object"
            \/ s.target.shape = "sequence" /\ rv.t = "array"
         THEN [s EXCEPT !.target.val = Append(@, rv)]
    ELSE SaveError(s, TypeError)

RECURSIVE DecodeDMembers(_, _, _)
\* The members i.. of the object that is decoded into D.
DecodeDMembers(m, i, s) ==
    IF i > Len(m) THEN s
    ELSE DecodeDMembers(m, i + 1,
                        IF Matches(m[i].k, TagResults)
                        THEN DecodeResults(m[i].v, s) ELSE s)

\* A member "d" of Envelope, decoded into the struct D.
DecodeD(dv, s) ==
    IF dv.t = "null" THEN s
    ELSE IF dv.t # "object" THEN SaveError(s, TypeError)
    ELSE DecodeDMembers(dv.m, 1, s)

RECURSIVE DecodeEnvelopeMembers(_, _, _)
\* The members i.. of the object that is decoded into Envelope.
DecodeEnvelopeMembers(m, i, s) ==
    IF i > Len(m) THEN s
    ELSE DecodeEnvelopeMembers(m, i + 1,
                               IF Matches(m[i].k, TagD)
                               THEN DecodeD(m[i].v, s) ELSE s)

\* The text is a whole JSON object or array.
Delimited(text) == text.syntax = "json" /\ text.value.t \in {"object", "array"}

\* Decode(envelope) on the text the body holds, the reads ending with readErr.
DecodeEnvelope(text, readErr, responseBody) ==
    IF text.syntax = "invalid"
    THEN [err |-> Err("invalid character"), target |-> responseBody]
    ELSE IF readErr # Nil /\ ~Delimited(text)
         THEN [err |-> readErr, target |-> responseBody]
    ELSE IF text.syntax = "empty" THEN [err |-> Err("EOF"), target |-> responseBody]
    ELSE IF text.syntax = "truncated"
         THEN [err |-> Err("unexpected EOF"), target |-> responseBody]
    ELSE IF text.value.t = "null" THEN [err |-> Nil, target |-> responseBody]
    ELSE IF text.value.t # "object" THEN [err |-> TypeError, target |-> responseBody]
    ELSE LET s == DecodeEnvelopeMembers(text.value.m, 1, Decoding(responseBody))
         IN  [err |-> s.err, target |-> s.target]

Decode(f) ==
    LET b == ReadAll(f)
        r == DecodeEnvelope(b.data, b.err, f.target)
        g == ReadBody(f)
    IN  [f |-> [g EXCEPT !.target = r.target, !.events = Append(@, "decode")],
         err |-> r.err]

\* return resp, err: the results are unnamed, so what the deferred function
\* assigns to err afterwards does not reach the caller.
Return(f, resp, err) == [f EXCEPT !.ret = [resp |-> resp, err |-> err]]

\* The deferred function of Do (client.go:116-120), run after the return.
Deferred(f) == CloseBody(f)

\* Process without the early return on a failure: the body is decoded anyway.
ProcessDecodeAlways(f) ==
    LET chk == CheckResponse(f)
        dec == Decode(chk.f)
    IN  IF chk.err # Nil THEN Return(dec.f, dec.f.resp, chk.err)
        ELSE Return(dec.f, dec.f.resp, dec.err)

\* Do from the classification on, with the deferred close in force.
Process(f) ==
    LET chk == CheckResponse(f)
    IN  IF chk.err # Nil THEN Return(chk.f, chk.f.resp, chk.err)
        ELSE IF chk.f.resp = Nil THEN Return(chk.f, chk.f.resp, Nil)
        ELSE LET dec == Decode(chk.f)
             IN  Return(dec.f, dec.f.resp, dec.err)

\* client.go:116-165, debug being what the read of c.debug at 122 gave
Finish(f, debug) == Deferred(Process(IF debug THEN DumpResponse(f) ELSE f))

\* Do when the reads of c.debug give d1 (client.go:101) and d2 (122) and the
\* reads of c.onRequestCompleted (111, 112) give rc.
DoWith(d1, rc, d2, req, responseBody, tr) ==
    LET f2 == Dispatch(Entry(Frame(req, responseBody), d1), tr)
    IN  IF tr.err # Nil THEN Return(f2, Nil, tr.err)
        ELSE Finish(IF rc # Nil THEN Callback(f2) ELSE f2, d2)

\* Do on a client nobody writes to meanwhile.
Do(cl, req, responseBody, tr) ==
    DoWith(cl.debug, cl.onRequestCompleted, cl.debug, req, responseBody, tr)

(***************************************************************************)
(* Do as a state machine.                                                  *)
(*   c     the Client                                                      *)
(*   last  the latest Do call: where it is (pc), what its reads of c.debug *)
(*         (d1, d2) and of c.onRequestCompleted (reg at client.go:111, rc  *)
(*         at 112) gave, its arguments, the transport's answer, its frame  *)
(* The steps of a call end at the reads of the Client's fields: before the *)
(* dispatch returns (client.go:101-106), at the test of the callback       *)
(* (107-111), at its call (112) and at the second test of the debug flag   *)
(* (122-165).  SetDebug and OnRequestCompleted run between the steps; the  *)
(* other two setters write fields Do does not read.  A call of a nil       *)
(* callback is a panic, and a panic ends the program.                      *)
(***************************************************************************)
Callbacks == {Nil, [fn |-> "rc"], [fn |-> "other"]}

Item == JObj(<<Member(<<"C", "o", "d", "e">>, JNum(1))>>)

Bodies == {Nil, [json |-> Item], [unsupported |-> TRUE]}

\* A client that was given its base URL and its user agent.
Configured ==
    [New EXCEPT !.baseURL = URL(<<"/", "v", "1", "/">>),
                !.userAgent = <<"g", "o">>]

\* The requests NewRequest gives that client.
Requests ==
    {NewRequest(Configured, Nil, <<"P", "O", "S", "T">>, <<"I">>, b).req :
        b \in {Nil, [json |-> Item]}}

Statuses == {200, 204, 404}

Wrapped(results) == JObj(<<Member(TagD, JObj(<<Member(TagResults, results)>>))>>)

Texts ==
    {Empty, Invalid, Truncated,
     Json(JObj(<<>>)),
     Json(JArr(<<Item>>)),
     Json(JObj(<<Member(TagResults, JArr(<<Item>>))>>)),
     Json(JObj(<<Member(TagD, JObj(<<>>))>>)),
     Json(Wrapped(JNull)),
     Json(Wrapped(Item)),
     Json(Wrapped(JArr(<<Item>>))),
     Json(JObj(<<Member(<<"D">>,
                        JObj(<<Member(<<"R", "e", LongS, "U", "L", "T", "S">>,
                                      Item)>>))>>)),
     Json(JObj(<<Member(TagD, JNum(1)), Member(TagD, JObj(<<Member(TagResults, Item)>>))>>)),
     Json(JObj(<<Member(TagD, JObj(<<Member(TagResults, JNull),
                                     Member(TagResults, Item)>>))>>))}

\* What a read at the end of the body, and what Close, may give.
ReadErrs == {Nil, Err("connection reset by peer")}

CloseErrs == {Nil, Err("close failed")}

Transports ==
    {[err |-> Err("connection refused")]}
    \cup {[err |-> Nil, status |-> st, body |-> b, readErr |-> re, closeErr |-> ce] :
            st \in Statuses, b \in Texts, re \in ReadErrs, ce \in CloseErrs}

Targets == {Nil, Target("single"), Target("sequence")}

Running == built.pc # "panic" /\ ep.pc # "panic" /\ last.pc # "panic"

\* client.go:101-106, up to the dispatch
DoBegin(req, responseBody) ==
    /\ Running
    /\ last.pc \in {"idle", "done"}
    /\ last' = [pc |-> "dispatch", d1 |-> c.debug, reg |-> Nil, rc |-> Nil,
                d2 |-> FALSE,
                req |-> req, responseBody |-> responseBody, tr |-> Nil,
                f |-> Entry(Frame(req, responseBody), c.debug)]
    /\ UNCHANGED <<c, built, ep, dt, parsed>>

\* client.go:106-111: the dispatch returns; the callback is tested for nil
DoDispatched(tr) ==
    /\ Running
    /\ last.pc = "dispatch"
    /\ LET f2 == Dispatch(last.f, tr)
       IN  last' = IF tr.err # Nil
                   THEN [last EXCEPT !.pc = "done", !.tr = tr,
                                     !.f = Return(f2, Nil, tr.err)]
                   ELSE [last EXCEPT !.pc = IF c.onRequestCompleted # Nil
                                            THEN "hook" ELSE "dump",
                                     !.reg = c.onRequestCompleted,
                                     !.tr = tr, !.f = f2]
    /\ UNCHANGED <<c, built, ep, dt, parsed>>

\* client.go:112: the callback is read again and called
DoHook ==
    /\ Running
    /\ last.pc = "hook"
    /\ last' = IF c.onRequestCompleted = Nil
               THEN [last EXCEPT !.pc = "panic"]
               ELSE [last EXCEPT !.pc = "dump", !.rc = c.onRequestCompleted,
                                 !.f = Callback(last.f)]
    /\ UNCHANGED <<c, built, ep, dt, parsed>>

\* client.go:116-165
DoFinish ==
    /\ Running
    /\ last.pc = "dump"
    /\ last' = [last EXCEPT !.pc = "done", !.d2 = c.debug,
                            !.f = Finish(last.f, c.debug)]
    /\ UNCHANGED <<c, built, ep, dt, parsed>>

Init ==
    /\ c = New
    /\ built = Idle
    /\ last = Idle
    /\ ep = Idle
    /\ dt = ZeroTime
    /\ parsed = Nil

Next ==
    \/ \E b \in BOOLEAN : Running /\ SetDebug(b)
    \/ \E rc \in Callbacks : Running /\ OnRequestCompleted(rc)
    \/ \E req \in Requests, rb \in Targets : DoBegin(req, rb)
    \/ \E tr \in Transports : DoDispatched(tr)
    \/ DoHook
    \/ DoFinish

Spec == Init /\ [][Next]_vars

(***************************************************************************)
(* Properties of Do, on the latest call.                                   *)
(***************************************************************************)
Called == last.pc = "done"

Responded == Called /\ last.tr.err = Nil

Success == Responded /\ last.tr.status >= 200 /\ last.tr.status <= 299

Failure == Responded /\ ~Success

Count(events, e) == Cardinality({i \in DOMAIN events : events[i] = e})

\* Every e1 in events comes before every e2.
Before(events, e1, e2) ==
    \A i, j \in DOMAIN events : events[i] = e1 /\ events[j] = e2 => i < j

\* The body is a JSON object none of whose members the decoder takes for "d".
NoWrapper(text) ==
    /\ text.syntax = "json"
    /\ text.value.t = "object"
    /\ \A i \in 1..Len(text.value.m) : ~Matches(text.value.m[i].k, TagD)

\* What a caller of Do sees: the response (its status and what is left of its
\* body), the error, the target, and the request body the transport was sent.
Outcome(f) ==
    [resp |-> IF f.ret.resp = Nil THEN Nil
              ELSE [StatusCode |-> f.ret.resp.StatusCode, rest |-> BodyRest(f)],
     err |-> f.ret.err, target |-> f.target, sent |-> f.sent]

\* C2: whenever the transport returned a response, the body stream has been
\* closed exactly once when Do has finished, on every exit path.
C2_BodyClosedOnce == Responded => last.f.stream.closes = 1

\* C3: a 2xx response whose JSON body lacks the "d" wrapper makes Do return a
\* non-nil error (never a nil error with the target left unpopulated).
C3_NoWrapperIsError ==
    (Success /\ last.responseBody # Nil /\ NoWrapper(last.tr.body))
        => last.f.ret.err # Nil

\* C4: with responseBody == nil and a 2xx response the decode step is skipped:
\* Do returns the response and a nil error whatever the body holds, and the
\* body stream is released.
C4_NilTargetSkipsDecode ==
    (Success /\ last.responseBody = Nil)
        => /\ "decode" \notin Range(last.f.events)
           /\ last.f.ret.resp # Nil
           /\ last.f.ret.err = Nil
           /\ last.f.stream.closes = 1

\* C5: classification comes before decoding, and on a Failure the decode step
\* never runs: the target is unchanged and Do returns the non-nil response and
\* the Failure as the error.
C5_FailureSkipsDecode ==
    /\ Called => Before(last.f.events, "classify", "decode")
    /\ Failure => /\ "decode" \notin Range(last.f.events)
                  /\ "classify" \in Range(last.f.events)
                  /\ last.f.target = last.responseBody
                  /\ last.f.ret.resp # Nil
                  /\ last.f.ret.err # Nil
                  /\ last.f.ret.err.error = "api"
                  /\ last.f.ret.err.status = last.tr.status

C5_Witness ==
    /\ Failure /\ last.responseBody # Nil
    /\ last.tr.body = Json(Wrapped(Item))
    /\ last.responseBody.shape = "single"
    /\ last.f.target.val = Unset

\* C8: whatever the reads of the debug flag gave, the call gives the response,
\* the error, the target and the request body on the wire that the same call
\* gives on a client whose debug flag is off.
C8_DebugInert ==
    Called =>
        Outcome(last.f)
            = Outcome(Do([debug |-> FALSE, onRequestCompleted |-> last.rc],
                         last.req, last.responseBody, last.tr))

\* C10: in a Do call that finds a callback registered when the dispatch has
\* returned a response (the test of client.go:111), whatever the status code,
\* a callback runs exactly once; it runs after the dispatch and before the
\* dump of the response, classification, decoding and the close of the body.
\* No callback runs when none is registered.  On a transport failure no
\* callback runs, whatever is registered, and Do returns a nil response and
\* the transport's error after one dispatch.
C10_CallbackOnce ==
    Called =>
        /\ last.f.dispatches = 1
        /\ Before(last.f.events, "dispatch", "callback")
        /\ Before(last.f.events, "callback", "dumpResponse")
        /\ Before(last.f.events, "callback", "classify")
        /\ Before(last.f.events, "callback", "decode")
        /\ Before(last.f.events, "callback", "close")
        /\ Responded =>
              Count(last.f.events, "callback") = (IF last.reg # Nil THEN 1 ELSE 0)
        /\ ~Responded => /\ Count(last.f.events, "callback") = 0
                         /\ last.f.ret.resp = Nil
                         /\ last.f.ret.err = last.tr.err

\* A response that is a Failure, on a client with a callback and debug on.
C10_Witness ==
    /\ Failure /\ last.tr.status = 404
    /\ last.reg # Nil /\ last.d2
    /\ Count(last.f.events, "callback") = 1
    /\ "dumpResponse" \in Range(last.f.events)
    /\ "classify" \in Range(last.f.events)
    /\ "close" \in Range(last.f.events)

(***************************************************************************)
(* NewRequest as a state machine.                                          *)
(*   built  the latest NewRequest call: where it is (pc), whether the base *)
(*          URL was nil when it began, its arguments, the base path and    *)
(*          the path of client.go:87-90, the user agents the field held    *)
(*          while the call stood before its read, and what the call gave   *)
(* The steps end at the reads of c.baseURL (client.go:87, 92) and of       *)
(* c.userAgent (82); SetBaseURL and SetUserAgent run between the steps.    *)
(***************************************************************************)
BaseURLs == {Nil, URL(<<"/", "v", "1", "/">>), URL(<<"v", "1">>)}

UserAgents == {<<>>, <<"x">>, <<"g", "o">>}

Ctxs == {Nil, [ctx |-> "deadline"]}

Methods ==
    {<<>>, <<"G", "E", "T">>, <<"M", "-", "S", "E", "A", "R", "C", "H">>,
     <<"G", " ", "T">>, <<"G", "@", "T">>, <<"G", ",", "T">>}

Paths == {<<"I">>, <<"/", "I">>}

\* client.go:60, 87-90
NewRequestBegin(ctx, method, path, body) ==
    /\ Running
    /\ built.pc \in {"idle", "done"}
    /\ built' = IF c.baseURL = Nil
                THEN [pc |-> "panic", nilBase |-> TRUE]
                ELSE [pc |-> "copy", nilBase |-> FALSE, ctx |-> ctx,
                      method |-> method, body |-> body,
                      basePath |-> BasePath(c.baseURL), path |-> Rooted(path),
                      seen |-> {}, out |-> Nil]
    /\ UNCHANGED <<c, ep, last, dt, parsed>>

\* client.go:92-94, 62-78
NewRequestResolve ==
    /\ Running
    /\ built.pc = "copy"
    /\ LET u == Endpoint(c.baseURL, built.basePath, built.path)
           r == Build(u, built.ctx, built.method, built.body)
       IN  built' = IF u = Panic THEN [pc |-> "panic", nilBase |-> FALSE]
                    ELSE IF r.err # Nil THEN [built EXCEPT !.pc = "done", !.out = r]
                    ELSE [built EXCEPT !.pc = "header", !.out = r,
                                       !.seen = {c.userAgent}]
    /\ UNCHANGED <<c, ep, last, dt, parsed>>

\* What the read of c.userAgent may give: the data pointer of one of the
\* strings the field held while the call stood before the read, with the
\* length of one of them.
UserAgentReads == {Tear(data, length) : data \in built.seen, length \in built.seen}

\* client.go:80-83
NewRequestHeader ==
    /\ Running
    /\ built.pc = "header"
    /\ \E userAgent \in UserAgentReads :
          built' = [built EXCEPT !.pc = "done", !.seen = {},
                                 !.out.req.Header = Header(userAgent)]
    /\ UNCHANGED <<c, ep, last, dt, parsed>>

NextRequest ==
    \/ \E u \in BaseURLs : Running /\ SetBaseURL(u)
    \/ \E ua \in UserAgents : Running /\ SetUserAgent(ua)
    \/ \E ctx \in Ctxs, m \in Methods, p \in Paths, b \in Bodies :
          NewRequestBegin(ctx, m, p, b)
    \/ NewRequestResolve
    \/ NewRequestHeader

SpecRequest == Init /\ [][NextRequest]_vars

\* C9: NewRequest on a client whose base URL is unset returns an error and no
\* request; it does not crash.
C9_UnsetBaseIsError ==
    (built.pc \in {"done", "panic"} /\ built.nilBase)
        => /\ built.pc = "done"
           /\ built.out.req = Nil
           /\ built.out.err # Nil

(***************************************************************************)
(* GetEndpoint as a state machine: base paths and relative paths are the   *)
(* strings over "/" and "a" of at most MaxPathLen characters.              *)
(*   ep  the latest GetEndpoint call: where it is (pc), the base URL read  *)
(*       at client.go:87, the path it was given, the base path and the     *)
(*       path of 87-90, and the result                                     *)
(***************************************************************************)
MaxPathLen == 3

PathStrings == UNION {[1..k -> {"/", "a"}] : k \in 0..MaxPathLen}

\* client.go:87-90
GetEndpointBegin(path) ==
    /\ Running
    /\ ep.pc \in {"idle", "done"}
    /\ ep' = IF c.baseURL = Nil THEN [pc |-> "panic"]
             ELSE [pc |-> "copy", base |-> c.baseURL, path |-> path,
                   basePath |-> BasePath(c.baseURL), rooted |-> Rooted(path),
                   out |-> Nil]
    /\ UNCHANGED <<c, built, last, dt, parsed>>

\* client.go:92-94
GetEndpointResolve ==
    /\ Running
    /\ ep.pc = "copy"
    /\ LET u == Endpoint(c.baseURL, ep.basePath, ep.rooted)
       IN  ep' = IF u = Panic THEN [pc |-> "panic"]
                 ELSE [ep EXCEPT !.pc = "done", !.out = u]
    /\ UNCHANGED <<c, built, last, dt, parsed>>

NextEndpoint ==
    \/ \E u \in {Nil} \cup {URL(b) : b \in PathStrings} : Running /\ SetBaseURL(u)
    \/ \E p \in PathStrings : GetEndpointBegin(p)
    \/ GetEndpointResolve

SpecEndpoint == Init /\ [][NextEndpoint]_vars

RECURSIVE TrimRight(_)
\* s without its trailing slashes
TrimRight(s) == IF HasSuffix(s, "/") THEN TrimRight(SubSeq(s, 1, Len(s) - 1)) ELSE s

RECURSIVE TrimLeft(_)
\* s without its leading slashes
TrimLeft(s) == IF HasPrefix(s, "/") THEN TrimLeft(Tail(s)) ELSE s

\* The base and the relative part with exactly one "/" between them.
Joined(b, p) == TrimRight(b) \o <<"/">> \o TrimLeft(p)

Resolved == ep.pc = "done"

\* C1 (as stated): for every base path and every relative path the result has
\* exactly one "/" between the base and the relative part.
C1_ExactlyOneSlash ==
    Resolved => ep.out.Path = Joined(ep.base.Path, ep.path)

SingleSlashed(b, p) ==
    /\ ~(Len(b) >= 2 /\ b[Len(b)] = "/" /\ b[Len(b) - 1] = "/")
    /\ ~(Len(p) >= 2 /\ p[1] = "/" /\ p[2] = "/")

\* C1 (amended): for every base path that ends in at most one "/" and every
\* relative path that starts with at most one "/", the result has exactly one
\* "/" between the base and the relative part.
C1_OneSlashWhenSingle ==
    (Resolved /\ SingleSlashed(ep.base.Path, ep.path))
        => ep.out.Path = Joined(ep.base.Path, ep.path)

C1_Witness ==
    /\ Resolved
    /\ ep.base.Path = <<"/", "a", "/">>
    /\ ep.path = <<"a">>
    /\ ep.out.Path = <<"/", "a", "/", "a">>

(***************************************************************************)
(* edm.DateTime.UnmarshalJSON.                                             *)
(*                                                                         *)
(* Go's int and int64 are 64 bits wide here, beyond the integers of the    *)
(* model checker, so an integer is the sequence of its bytes, the least    *)
(* significant first: eight bytes for an int64, in two's complement.       *)
(***************************************************************************)
RECURSIVE MulAddFrom(_, _, _, _)
\* The bytes i.. of x * m + carry, and the carry out of the last byte.
MulAddFrom(x, m, carry, i) ==
    IF i > Len(x) THEN [bytes |-> <<>>, out |-> carry]
    ELSE LET v == x[i] * m + carry
             r == MulAddFrom(x, m, v \div 256, i + 1)
         IN  [bytes |-> <<v % 256>> \o r.bytes, out |-> r.out]

\* x * m + d in as many bytes as x has: the low bytes, and what is carried out.
MulAdd(x, m, d) == MulAddFrom(x, m, d, 1)

\* The int64 0.
Int64Zero == [i \in 1..8 |-> 0]

\* An int64 as a number in width bytes, for an int64 that is not negative.
Widen(x, width) == x \o [i \in 1..(width - 8) |-> 0]

\* a * b in int64 arithmetic: the low 64 bits of the product (b below 2^23).
Mul64(a, b) == MulAdd(a, b, 0).bytes

IsDigit(ch) == \E i \in 1..10 : Digits[i] = ch

DigitValue(ch) == (CHOOSE i \in 1..10 : Digits[i] = ch) - 1

\* regexp `[0-9]+` FindString: the leftmost, longest run of digits, or "".
FindString(value) ==
    IF \A i \in 1..Len(value) : ~IsDigit(value[i]) THEN <<>>
    ELSE LET from == CHOOSE i \in 1..Len(value) :
                        /\ IsDigit(value[i])
                        /\ \A j \in 1..(i - 1) : ~IsDigit(value[j])
             to == CHOOSE i \in from..Len(value) :
                        /\ \A j \in from..i : IsDigit(value[j])
                        /\ (i = Len(value) \/ ~IsDigit(value[i + 1]))
         IN  SubSeq(value, from, to)

\* The largest int, 2^63 - 1.
MaxInt == [i \in 1..8 |-> IF i = 8 THEN 127 ELSE 255]

RECURSIVE ParseFrom(_, _, _)
\* The digits i.. of match taken onto the number acc; over once the number
\* is beyond the largest int.
ParseFrom(match, i, acc) ==
    IF i > Len(match) THEN acc
    ELSE IF acc.over THEN acc
    ELSE LET r == MulAdd(acc.n, 10, DigitValue(match[i]))
         IN  ParseFrom(match, i + 1,
                       [n |-> r.bytes, over |-> r.out # 0 \/ r.bytes[8] >= 128])

\* strconv.Atoi of a run of digits: out of range beyond the largest int.
Atoi(match) ==
    LET r == ParseFrom(match, 1, [n |-> Int64Zero, over |-> FALSE])
    IN  IF match = <<>>
        THEN [n |-> Int64Zero, err |-> Err("strconv.Atoi: invalid syntax")]
        ELSE IF r.over
        THEN [n |-> MaxInt, err |-> Err("strconv.Atoi: value out of range")]
        ELSE [n |-> r.n, err |-> Nil]

\* json.Unmarshal(text, &value) for a string value: a JSON string gives its
\* characters, null leaves value empty, anything else is an error.
UnmarshalString(text) ==
    IF text.t = "string" THEN [value |-> text.s, err |-> Nil]
    ELSE IF text.t = "null" THEN [value |-> <<>>, err |-> Nil]
    ELSE [value |-> <<>>, err |-> TypeError]

\* time.Millisecond, in nanoseconds
Millisecond == 1000000

\* UnmarshalJSON without the test for a string that has no digits.
UnmarshalJSONNoMatchTest(d, text) ==
    LET u == UnmarshalString(text)
        match == FindString(u.value)
        a == Atoi(match)
    IN  IF u.err # Nil THEN [d |-> d, err |-> u.err]
        ELSE IF u.value = <<>> THEN [d |-> d, err |-> Nil]
        ELSE IF a.err # Nil THEN [d |-> d, err |-> a.err]
        ELSE [d |-> Unix(Mul64(a.n, Millisecond)), err |-> Nil]

\* d.Time = time.Unix(0, int64(milis)*int64(time.Millisecond)): the product
\* is an int64, time.Millisecond being 10^6.
UnmarshalJSON(d, text) ==
    LET u == UnmarshalString(text)
        match == FindString(u.value)
        a == Atoi(match)
    IN  IF u.err # Nil THEN [d |-> d, err |-> u.err]
        ELSE IF u.value = <<>> THEN [d |-> d, err |-> Nil]
        ELSE IF match = <<>> THEN [d |-> d, err |-> Nil]
        ELSE IF a.err # Nil THEN [d |-> d, err |-> a.err]
        ELSE [d |-> Unix(Mul64(a.n, Millisecond)), err |-> Nil]

(***************************************************************************)
(* A DateTime that is decoded again and again.                             *)
(*   dt      the receiving DateTime's Time                                 *)
(*   parsed  the latest UnmarshalJSON call: the JSON text, the Time the    *)
(*           receiver held before the call, the error returned             *)
(***************************************************************************)
JStr(str) == [t |-> "string", s |-> str]

Prefixes == {<<>>, <<"/", "D", "a", "t", "e", "(">>}

Suffixes == {<<>>, <<")", "/">>, <<"+", "0", "1", "0", "0", ")", "/">>}

Runs ==
    {<<>>,
     <<"0">>,
     <<"0", "0", "7">>,
     <<"1", "4", "8", "8", "9", "3", "9", "6", "2", "7", "0", "1", "7">>,
     <<"9", "2", "2", "3", "3", "7", "2", "0", "3", "6", "8", "5", "4">>,
     <<"9", "2", "2", "3", "3", "7", "2", "0", "3", "6", "8", "5", "5">>,
     <<"1", "8", "4", "4", "6", "7", "4", "4", "0", "7", "3", "7", "1", "0">>,
     <<"9", "2", "2", "3", "3", "7", "2", "0", "3", "6", "8", "5", "4",
       "7", "7", "5", "8", "0", "7">>,
     <<"9", "2", "2", "3", "3", "7", "2", "0", "3", "6", "8", "5", "4",
       "7", "7", "5", "8", "0", "8">>}

RawTexts ==
    {JNull, JNum(1)}
    \cup {JStr(p \o r \o x) : p \in Prefixes, r \in Runs, x \in Suffixes}

UnmarshalJSONCall(text) ==
    /\ LET r == UnmarshalJSON(dt, text)
       IN  /\ dt' = r.d
           /\ parsed' = [text |-> text, before |-> dt, err |-> r.err]
    /\ UNCHANGED <<c, built, ep, last>>

NextDate == \E text \in RawTexts : UnmarshalJSONCall(text)

SpecDate == Init /\ [][NextDate]_vars

IsRaw == parsed # Nil /\ parsed.text.t = "string"

\* The first digit run of the latest raw string.
Run == FindString(parsed.text.s)

\* C6: for every raw string whose first digit run fits the integer range,
\* UnmarshalJSON returns no error and the timestamp is exactly that many
\* milliseconds after the epoch: the conversion never wraps.  (The product of
\* the count and 10^6 is taken in 12 bytes, where it cannot wrap.)
C6_ExactMillis ==
    (IsRaw /\ Run # <<>> /\ Atoi(Run).err = Nil)
        => /\ parsed.err = Nil
           /\ dt # ZeroTime
           /\ dt.ns[8] < 128
           /\ Widen(dt.ns, 12) = MulAdd(Widen(Atoi(Run).n, 12), Millisecond, 0).bytes

\* C7 (as stated): for every raw string that is empty or has no digit,
\* UnmarshalJSON returns no error and the timestamp is the zero value,
\* whatever the receiver held before.
C7_NoDigitsIsZero ==
    (IsRaw /\ \A i \in 1..Len(parsed.text.s) : ~IsDigit(parsed.text.s[i]))
        => /\ parsed.err = Nil
           /\ dt = ZeroTime

\* C7 (amended): for every raw string that is empty or has no digit,
\* UnmarshalJSON returns no error and leaves the receiver as it was: the zero
\* value when the receiver was unset before the call.
C7_NoDigitsLeavesReceiver ==
    (IsRaw /\ \A i \in 1..Len(parsed.text.s) : ~IsDigit(parsed.text.s[i]))
        => /\ parsed.err = Nil
           /\ dt = parsed.before
           /\ (parsed.before = ZeroTime => dt = ZeroTime)

C7_Witness ==
    /\ IsRaw
    /\ parsed.text.s = <<"/", "D", "a", "t", "e", "(", ")", "/">>
    /\ parsed.before # ZeroTime
    /\ parsed.err = Nil
    /\ dt = parsed.before

====
